---- MODULE Spec2Model ----
(***************************************************************************)
(* Model of the planarity answer checker of spqr_trees                     *)
(* (assets/verify_answers.py, assets/check_planar.py).                     *)
(*                                                                         *)
(* The scripts drive networkx: nx.Graph, nx.check_planarity and            *)
(* nx.PlanarEmbedding.  The rotation-system operations are modelled by     *)
(* what the calls made by verify_embedding do to the half-edge structure   *)
(* (per-vertex successor dict in insertion order, cw / ccw links).         *)
(***************************************************************************)
EXTENDS Integers, Sequences, FiniteSets, TLC

\* ------------------------------------------------------------------ bounds
NumVertices == 4
MaxJunkVertices == 2
MaxNbrs == 3
MaxHalfEdges == 3
MaxEdges == 5
MaxTests == 2
MaxPairs == 3
MaxPairVertices == 2
MaxTreeVertices == 5

EmbVerts == 0 .. (NumVertices - 1)
JunkVerts == 0 .. (MaxJunkVertices - 1)
TreeVerts == 0 .. (MaxTreeVertices - 1)
\* the vertex universe: wide enough for K3,3 and for K5 next to another
\* component
Verts == 0 .. 6 \cup EmbVerts \cup JunkVerts \cup TreeVerts \cup (0 .. (MaxPairVertices - 1))

\* ------------------------------------------------------- sequence helpers
Range(s) == { s[i] : i \in 1 .. Len(s) }

Contains(s, x) == \E i \in 1 .. Len(s) : s[i] = x

Last(s) == s[Len(s)]

RECURSIVE RemoveFirst(_, _)
RemoveFirst(s, x) ==
    IF s = << >> THEN << >>
    ELSE IF Head(s) = x THEN Tail(s)
    ELSE << Head(s) >> \o RemoveFirst(Tail(s), x)

RECURSIVE SetToSeq(_)
\* ascending enumeration of a finite set of integers
SetToSeq(S) ==
    IF S = {} THEN << >>
    ELSE LET m == CHOOSE x \in S : \A y \in S : x <= y
         IN  << m >> \o SetToSeq(S \ {m})

Perms(S) ==
    { p \in [1 .. Cardinality(S) -> S] :
        \A i, j \in 1 .. Cardinality(S) : p[i] = p[j] => i = j }

Min(S) == CHOOSE x \in S : \A y \in S : x <= y

\* the cyclic orders of S, each written from its least element
CyclicOrders(S) ==
    IF S = {} THEN { << >> }
    ELSE { << Min(S) >> \o p : p \in Perms(S \ { Min(S) }) }

\* ------------------------------------------------ nx.PlanarEmbedding state
\* nodes : node dict of the DiGraph, in insertion order
\* keys  : _succ[u], the successors of u in dict (insertion) order
\* cw/ccw: the "cw" / "ccw" attribute of half-edge (u, v)
\* err   : an exception raised by an insertion call
EmptyEmbedding ==
    [ nodes |-> << >>,
      keys  |-> [u \in Verts |-> << >>],
      cw    |-> [u \in Verts |-> [v \in Verts |-> v]],
      ccw   |-> [u \in Verts |-> [v \in Verts |-> v]],
      err   |-> "none" ]

AddNode(nodes, u) == IF Contains(nodes, u) THEN nodes ELSE Append(nodes, u)

\* DiGraph.add_edge(u, v, cw=c, ccw=cc): adds missing nodes, creates or
\* updates the attribute dict of (u, v); an existing key keeps its place.
add_edge(G, u, v, c, cc) ==
    [ G EXCEPT
        !.nodes = AddNode(AddNode(G.nodes, u), v),
        !.keys[u] = IF Contains(G.keys[u], v) THEN G.keys[u]
                    ELSE Append(G.keys[u], v),
        !.cw[u][v] = c,
        !.ccw[u][v] = cc ]

\* succs[leftmost_nbr] = succs.pop(leftmost_nbr)
MoveToEnd(G, u, x) ==
    [ G EXCEPT !.keys[u] = Append(RemoveFirst(G.keys[u], x), x) ]

\* G.add_half_edge(u, v): the first half-edge out of u
add_half_edge(G, u, v) ==
    IF G.err # "none" THEN G
    ELSE IF G.keys[u] # << >> THEN [ G EXCEPT !.err = "NetworkXError" ]
    ELSE add_edge(G, u, v, v, v)

add_half_edge_ccw_CwSide(G, u, v, ref) ==
    IF G.err # "none" THEN G
    ELSE IF G.keys[u] = << >> \/ ~Contains(G.keys[u], ref)
         THEN [ G EXCEPT !.err = "NetworkXError" ]
    ELSE LET leftmost == Last(G.keys[u])
             ref_cw == G.ccw[u][ref]
             G1 == add_edge(G, u, v, ref_cw, ref)
             G2 == [ G1 EXCEPT !.ccw[u][ref_cw] = v ]
             G3 == [ G2 EXCEPT !.cw[u][ref] = v ]
         IN  MoveToEnd(G3, u, leftmost)

\* G.add_half_edge_ccw(u, v, ref) = G.add_half_edge(u, v, cw=ref):
\* v is linked in as the ccw neighbour of ref.
add_half_edge_ccw(G, u, v, ref) ==
    IF G.err # "none" THEN G
    ELSE IF G.keys[u] = << >> \/ ~Contains(G.keys[u], ref)
         THEN [ G EXCEPT !.err = "NetworkXError" ]
    ELSE LET leftmost == Last(G.keys[u])
             ref_ccw == G.ccw[u][ref]
             G1 == add_edge(G, u, v, ref, ref_ccw)
             G2 == [ G1 EXCEPT !.cw[u][ref_ccw] = v ]
             G3 == [ G2 EXCEPT !.ccw[u][ref] = v ]
         IN  IF ref # leftmost THEN MoveToEnd(G3, u, leftmost) ELSE G3

\* ------------------------------------------ PlanarEmbedding.check_structure
has_edge(G, u, v) == Contains(G.keys[u], v)

RECURSIVE CwWalk(_, _, _, _)
\* the while loop of neighbors_cw_order; a walk that has yielded more
\* neighbours than there are keys never comes back to start_node
CwWalk(G, v, cur, acc) ==
    IF cur = Last(G.keys[v]) THEN [ hang |-> FALSE, seq |-> acc ]
    ELSE IF Len(acc) > Len(G.keys[v]) THEN [ hang |-> TRUE, seq |-> acc ]
    ELSE CwWalk(G, v, G.cw[v][cur], Append(acc, cur))

neighbors_cw_order(G, v) ==
    IF G.keys[v] = << >> THEN [ hang |-> FALSE, seq |-> << >> ]
    ELSE LET start_node == Last(G.keys[v])
         IN  CwWalk(G, v, G.cw[v][start_node], << start_node >>)

RECURSIVE FundamentalFrom(_, _)
\* first loop of check_structure, over the nodes from position i on:
\* "ok", "raise" (NetworkXException) or "hang" (the generator never ends)
FundamentalFrom(G, i) ==
    IF i > Len(G.nodes) THEN "ok"
    ELSE LET v == G.nodes[i]
             r == neighbors_cw_order(G, v)
         IN  IF r.hang THEN "hang"
             ELSE IF Range(r.seq) # Range(G.keys[v]) THEN "raise"
             ELSE IF \E w \in Range(G.keys[v]) : ~has_edge(G, w, v) THEN "raise"
             ELSE FundamentalFrom(G, i + 1)

RECURSIVE Reach(_, _)
Reach(G, S) ==
    LET T == S \cup UNION { Range(G.keys[x]) : x \in S }
    IN  IF T = S THEN S ELSE Reach(G, T)

RECURSIVE ComponentsFrom(_, _, _)
\* nx.connected_components: one set per component, in node order
ComponentsFrom(G, i, seen) ==
    IF i > Len(G.nodes) THEN << >>
    ELSE IF G.nodes[i] \in seen THEN ComponentsFrom(G, i + 1, seen)
    ELSE LET c == Reach(G, { G.nodes[i] })
         IN  << c >> \o ComponentsFrom(G, i + 1, seen \cup c)

connected_components(G) == ComponentsFrom(G, 1, {})

next_face_half_edge(G, v, w) == << w, G.ccw[w][v] >>

RECURSIVE FaceLoop(_, _, _, _, _, _)
FaceLoop(G, v, incoming_node, prev_node, cur_node, marks) ==
    IF cur_node = v /\ prev_node = incoming_node
    THEN [ raised |-> FALSE, marks |-> marks ]
    ELSE LET nxt == next_face_half_edge(G, prev_node, cur_node)
         IN  IF nxt \in marks THEN [ raised |-> TRUE, marks |-> marks ]
             ELSE FaceLoop(G, v, incoming_node, nxt[1], nxt[2],
                           marks \cup { nxt })

traverse_face(G, v, w, marks) ==
    FaceLoop(G, v, G.cw[v][w], v, w, marks \cup { << v, w >> })

RECURSIVE HalfEdgesOf(_, _)
\* the half-edges of a component in the order the Euler loop visits them
HalfEdgesOf(G, vs) ==
    IF vs = << >> THEN << >>
    ELSE LET v == Head(vs)
             ns == neighbors_cw_order(G, v).seq
         IN  [ i \in 1 .. Len(ns) |-> << v, ns[i] >> ] \o HalfEdgesOf(G, Tail(vs))

RECURSIVE CountFaces(_, _, _, _)
CountFaces(G, hs, marks, faces) ==
    IF hs = << >> THEN [ raised |-> FALSE, marks |-> marks, faces |-> faces ]
    ELSE IF Head(hs) \in marks THEN CountFaces(G, Tail(hs), marks, faces)
    ELSE LET t == traverse_face(G, Head(hs)[1], Head(hs)[2], marks)
         IN  IF t.raised THEN [ raised |-> TRUE, marks |-> marks, faces |-> faces ]
             ELSE CountFaces(G, Tail(hs), t.marks, faces + 1)

RECURSIVE PlanarityFrom_NoHalving(_, _, _)
PlanarityFrom_NoHalving(G, comps, marks) ==
    IF comps = << >> THEN "ok"
    ELSE LET component == Head(comps)
         IN  IF Cardinality(component) = 1
             THEN PlanarityFrom_NoHalving(G, Tail(comps), marks)
             ELSE LET hs == HalfEdgesOf(G, SetToSeq(component))
                      num_nodes == Cardinality(component)
                      num_edges == Len(hs)
                      f == CountFaces(G, hs, marks, 0)
                  IN  IF f.raised THEN "raise"
                      ELSE IF num_nodes - num_edges + f.faces # 2 THEN "raise"
                      ELSE PlanarityFrom_NoHalving(G, Tail(comps), f.marks)

RECURSIVE PlanarityFrom(_, _, _)
\* second loop of check_structure: Euler's formula per component
PlanarityFrom(G, comps, marks) ==
    IF comps = << >> THEN "ok"
    ELSE LET component == Head(comps)
         IN  IF Cardinality(component) = 1
             THEN PlanarityFrom(G, Tail(comps), marks)
             ELSE LET hs == HalfEdgesOf(G, SetToSeq(component))
                      num_nodes == Cardinality(component)
                      num_edges == Len(hs) \div 2
                      f == CountFaces(G, hs, marks, 0)
                  IN  IF f.raised THEN "raise"
                      ELSE IF num_nodes - num_edges + f.faces # 2 THEN "raise"
                      ELSE PlanarityFrom(G, Tail(comps), f.marks)

check_structure(G) ==
    LET a == FundamentalFrom(G, 1)
    IN  IF a # "ok" THEN a
        ELSE PlanarityFrom(G, connected_components(G), {})

\* ------------------------------------------------------- verify_embedding
\* an embedding is the dict read from the file: a sequence of entries
\* << u, neighbours >> with pairwise distinct u, in dict order
RECURSIVE InsertNeighbors(_, _, _, _)
InsertNeighbors(G, u, neighbors, i) ==
    IF i > Len(neighbors) THEN G
    ELSE IF i = 1
         THEN InsertNeighbors(add_half_edge(G, u, neighbors[1]), u, neighbors, 2)
         ELSE InsertNeighbors(
                  add_half_edge_ccw(G, u, neighbors[i], neighbors[i - 1]),
                  u, neighbors, i + 1)

RECURSIVE BuildEmbedding(_, _)
BuildEmbedding(G, embedding) ==
    IF embedding = << >> THEN G
    ELSE BuildEmbedding(
             InsertNeighbors(G, Head(embedding)[1], Head(embedding)[2], 1),
             Tail(embedding))

\* frozenset((u, v))
frozenset(e) == { e[1], e[2] }

edge_set(edges) == { frozenset(edges[i]) : i \in 1 .. Len(edges) }

emb_edges(embedding) ==
    UNION { { frozenset(<< embedding[i][1], embedding[i][2][j] >>) :
                j \in 1 .. Len(embedding[i][2]) } :
            i \in 1 .. Len(embedding) }

verify_embedding_SubsetCompare(edges, embedding) ==
    LET G == BuildEmbedding(EmptyEmbedding, embedding)
        c == check_structure(G)
    IN  IF G.err # "none" THEN "raise"
        ELSE IF c = "hang" THEN "hang"
        ELSE IF c = "raise" THEN "False"
        ELSE IF edge_set(edges) \subseteq emb_edges(embedding) THEN "True"
        ELSE "False"

\* "True" / "False": the value returned; "raise": an exception of the
\* insertion loop, which is outside the try block; "hang": check_structure
\* does not return
verify_embedding(edges, embedding) ==
    LET G == BuildEmbedding(EmptyEmbedding, embedding)
        c == check_structure(G)
    IN  IF G.err # "none" THEN "raise"
        ELSE IF c = "hang" THEN "hang"
        ELSE IF c = "raise" THEN "False"
        ELSE IF edge_set(edges) = emb_edges(embedding) THEN "True"
        ELSE "False"

\* ------------------------------------------------------------- nx.Graph
\* nodes: node dict in insertion order; adj[u]: neighbours in insertion order
EmptyGraph == [ nodes |-> << >>, adj |-> [u \in Verts |-> << >>] ]

AddAdj(G, u, v) ==
    IF Contains(G.adj[u], v) THEN G
    ELSE [ G EXCEPT !.adj[u] = Append(G.adj[u], v) ]

RECURSIVE add_edges_from_DropLoops(_, _)
add_edges_from_DropLoops(G, edges) ==
    IF edges = << >> THEN G
    ELSE LET u == Head(edges)[1]
             v == Head(edges)[2]
             G1 == [ G EXCEPT !.nodes = AddNode(AddNode(G.nodes, u), v) ]
         IN  IF u = v THEN add_edges_from_DropLoops(G1, Tail(edges))
             ELSE add_edges_from_DropLoops(AddAdj(AddAdj(G1, u, v), v, u),
                                           Tail(edges))

RECURSIVE add_edges_from(_, _)
\* Graph.add_edges_from: no pair is rejected; a repeated pair finds its
\* adjacency entry already there, a self-loop becomes the entry adj[u][u]
add_edges_from(G, edges) ==
    IF edges = << >> THEN G
    ELSE LET u == Head(edges)[1]
             v == Head(edges)[2]
             G1 == [ G EXCEPT !.nodes = AddNode(AddNode(G.nodes, u), v) ]
         IN  add_edges_from(AddAdj(AddAdj(G1, u, v), v, u), Tail(edges))

\* G.edges as unordered pairs (a self-loop is the singleton {u})
GraphEdges(G) ==
    UNION { { { u, v } : v \in Range(G.adj[u]) } : u \in Range(G.nodes) }

\* ---------------------------------------------------- nx.check_planarity
\* The planarity test is modelled by its contract: the answer is True
\* with some rotation system of genus 0 on every component when one
\* exists, and (False, None) otherwise.  Self-loops take no part in
\* the test.
Nbrs(G, v) == Range(G.adj[v]) \ { v }

NoRotation == [ v \in Verts |-> << >> ]

RECURSIVE RotationsFrom(_, _)
\* every choice of a cyclic order of the neighbours at the nodes i, i+1, ...
RotationsFrom(G, i) ==
    IF i > Len(G.nodes) THEN { NoRotation }
    ELSE { [ r EXCEPT ![G.nodes[i]] = c ] :
             r \in RotationsFrom(G, i + 1),
             c \in CyclicOrders(Nbrs(G, G.nodes[i])) }

IndexOf(s, x) == CHOOSE i \in 1 .. Len(s) : s[i] = x

\* the entry that follows x counter-clockwise in the circular sequence s
NextCcw(s, x) == s[(IndexOf(s, x) % Len(s)) + 1]

\* next half-edge around the face: from (u, v) to the half-edge that
\* follows (v, u) counter-clockwise at v
Phi(r, h) == << h[2], NextCcw(r[h[2]], h[1]) >>

RECURSIVE OrbitFrom(_, _, _, _)
OrbitFrom(r, h0, h, acc) ==
    LET n == Phi(r, h)
    IN  IF n = h0 THEN acc ELSE OrbitFrom(r, h0, n, acc \cup { n })

Orbit(r, h) == OrbitFrom(r, h, h, { h })

RECURSIVE GraphReach(_, _)
GraphReach(G, S) ==
    LET T == S \cup UNION { Nbrs(G, x) : x \in S }
    IN  IF T = S THEN S ELSE GraphReach(G, T)

Components(G) == { GraphReach(G, { v }) : v \in Range(G.nodes) }

HalfEdgesIn(G, comp) == UNION { { << u, v >> : v \in Nbrs(G, u) } : u \in comp }

RECURSIVE CountOrbits(_, _)
\* the number of faces that partition the half-edges todo
CountOrbits(r, todo) ==
    IF todo = {} THEN 0
    ELSE 1 + CountOrbits(r, todo \ Orbit(r, CHOOSE h \in todo : TRUE))

EulerCharacteristic(G, r, comp) ==
    Cardinality(comp) - (Cardinality(HalfEdgesIn(G, comp)) \div 2)
        + CountOrbits(r, HalfEdgesIn(G, comp))

IsPlanarRotation_AnySurface(G, comps, r) ==
    \A comp \in comps :
        Cardinality(comp) = 1 \/ EulerCharacteristic(G, r, comp) <= 2

IsPlanarRotation_WholeGraph(G, comps, r) ==
    Range(G.nodes) = {}
    \/ Cardinality(Range(G.nodes)) = 1
    \/ EulerCharacteristic(G, r, Range(G.nodes)) = 2

\* a rotation system of genus 0 on every component of comps
IsPlanarRotation(G, comps, r) ==
    \A comp \in comps :
        Cardinality(comp) = 1 \/ EulerCharacteristic(G, r, comp) = 2

NotPlanar == [ is_planar |-> FALSE, none |-> TRUE, rot |-> NoRotation ]

\* the set of results the call may return
check_planarity(G) ==
    LET comps == Components(G)
        P == { r \in RotationsFrom(G, 1) : IsPlanarRotation(G, comps, r) }
    IN  IF P = {} THEN { NotPlanar }
        ELSE { [ is_planar |-> TRUE, none |-> FALSE, rot |-> r ] : r \in P }

\* the returned PlanarEmbedding as a half-edge structure
RECURSIVE RotationEntries(_, _, _)
RotationEntries(G, r, i) ==
    IF i > Len(G.nodes) THEN << >>
    ELSE << << G.nodes[i], r[G.nodes[i]] >> >> \o RotationEntries(G, r, i + 1)

AsEmbedding(G, r) == BuildEmbedding(EmptyEmbedding, RotationEntries(G, r, 1))

\* ------------------------------------------------------------ the inputs
\* a test as read_tests returns it: the edge list, the marker, and the
\* embedding dict (None unless the marker is '+')
NoEmbedding == [ none |-> TRUE, entries |-> << >> ]

Test(edges, expected, entries) ==
    [ edges |-> edges, expected |-> expected,
      embedding |-> IF expected = "+"
                    THEN [ none |-> FALSE, entries |-> entries ]
                    ELSE NoEmbedding ]

PairsOver(V) == { e \in V \X V : e[1] < e[2] }

PairKey(e) == e[1] * (Cardinality(Verts) + 1) + e[2]

KeyPair(k) == << k \div (Cardinality(Verts) + 1), k % (Cardinality(Verts) + 1) >>

\* a set of pairs as an edge list in lexicographic order
EdgeList(g) ==
    LET ks == SetToSeq({ PairKey(e) : e \in g })
    IN  [ i \in 1 .. Len(ks) |-> KeyPair(ks[i]) ]

Flip(edges) == [ i \in 1 .. Len(edges) |-> << edges[i][2], edges[i][1] >> ]

NbrSet(g, v) ==
    { e[2] : e \in { x \in g : x[1] = v } } \cup { e[1] : e \in { x \in g : x[2] = v } }

RECURSIVE ListingsFrom(_, _)
\* the embeddings that list, for the vertices vs in turn, the neighbours
\* in g in some circular order, written from the least neighbour
ListingsFrom(g, vs) ==
    IF vs = << >> THEN { << >> }
    ELSE { << << Head(vs), p >> >> \o rest :
             p \in CyclicOrders(NbrSet(g, Head(vs))),
             rest \in ListingsFrom(g, Tail(vs)) }

\* the same circular orders, each list started one neighbour later
Shifted(embedding) ==
    [ i \in 1 .. Len(embedding) |->
        << embedding[i][1],
           IF Len(embedding[i][2]) <= 1 THEN embedding[i][2]
           ELSE Tail(embedding[i][2]) \o << Head(embedding[i][2]) >> >> ]

Graphs(V, maxEdges) == { g \in SUBSET PairsOver(V) : Cardinality(g) <= maxEdges }

\* the rotation systems of the graphs with few edges, and those of the
\* graphs with fewer edges once more with the lists started elsewhere
RotationEmbeddings(V, maxEdges) ==
    UNION { ListingsFrom(g, SetToSeq(V)) : g \in Graphs(V, maxEdges) }
    \cup { Shifted(e) :
             e \in UNION { ListingsFrom(g, SetToSeq(V)) : g \in Graphs(V, maxEdges - 1) } }

\* arbitrary neighbour lists, repeats and self references included
Min2(a, b) == IF a <= b THEN a ELSE b

RECURSIVE JunkFrom(_, _, _, _)
\* one list of at most maxLen neighbours per vertex of vs, at most budget
\* half-edges in all
JunkFrom(V, vs, maxLen, budget) ==
    IF vs = << >> THEN { << >> }
    ELSE UNION { { << << Head(vs), l >> >> \o rest :
                     l \in [1 .. n -> V],
                     rest \in JunkFrom(V, Tail(vs), maxLen, budget - n) } :
                 n \in 0 .. Min2(maxLen, budget) }

Reverse(s) == [ i \in 1 .. Len(s) |-> s[Len(s) + 1 - i] ]

JunkEmbeddings(V, maxLen, budget) ==
    LET asc == JunkFrom(V, SetToSeq(V), maxLen, budget)
    IN  asc \cup { Reverse(e) : e \in asc }

\* the unordered pairs of an embedding as ordered pairs (u <= v)
InducedPairs(embedding) ==
    { << Min(f), CHOOSE x \in f : \A y \in f : y <= x >> : f \in emb_edges(embedding) }

\* reference edge lists next to an embedding: the same pairs (flipped, the
\* first one repeated), the least pair left out, the least absent pair added
ReferenceLists(embedding, V) ==
    LET g == InducedPairs(embedding)
        keys == { PairKey(e) : e \in g }
        absent == { PairKey(e) : e \in PairsOver(V) \ g }
    IN  { IF g = {} THEN << >> ELSE Flip(EdgeList(g)) \o << EdgeList(g)[1] >> }
        \cup { EdgeList(g \ { KeyPair(Min(keys)) }) : x \in { 1 : y \in keys } }
        \cup { EdgeList(g \cup { KeyPair(Min(absent)) }) : x \in { 1 : y \in absent } }

TestsNextTo(embeddings, V) ==
    UNION { { Test(l, "+", emb) : l \in ReferenceLists(emb, V) } :
            emb \in embeddings }

VerifyTests(V, JV) ==
    TestsNextTo(RotationEmbeddings(V, MaxEdges), V)
    \cup TestsNextTo(JunkEmbeddings(JV, MaxNbrs, MaxHalfEdges), JV)
    \cup { Test(EdgeList(g), "-", << >>) : g \in Graphs(JV, MaxEdges) }

\* ---- inputs of the planarity questions
SmallVerts == 0 .. 3

Support(g) == { e[1] : e \in g } \cup { e[2] : e \in g }

RECURSIVE PairReach(_, _)
PairReach(g, S) ==
    LET T == S \cup UNION { NbrSet(g, x) : x \in S }
    IN  IF T = S THEN S ELSE PairReach(g, T)

ConnectedPairs(g) == g # {} /\ PairReach(g, { Min(Support(g)) }) = Support(g)

TreeGraphs(V) ==
    { g \in SUBSET PairsOver(V) :
        ConnectedPairs(g) /\ Cardinality(g) + 1 = Cardinality(Support(g)) }

CycleGraphs(V) ==
    { g \in SUBSET PairsOver(V) :
        /\ ConnectedPairs(g)
        /\ \A v \in Support(g) : Cardinality(NbrSet(g, v)) = 2 }

K5Pairs == PairsOver(0 .. 4)

K33Pairs == { 0, 1, 2 } \X { 3, 4, 5 }

K33OddEven == { e \in PairsOver(0 .. 5) : (e[1] + e[2]) % 2 = 1 }

PlanarityGraphs(V) ==
    SUBSET PairsOver(SmallVerts) \cup TreeGraphs(V) \cup CycleGraphs(V)
        \cup { K5Pairs, K33Pairs, K33OddEven,
               K5Pairs \cup { << 5, 6 >> },
               K33Pairs \cup { << 0, 6 >> },
               PairsOver(SmallVerts) \cup { << 4, 5 >>, << 5, 6 >>, << 4, 6 >> } }

\* pair sequences as a file may hold them: self-loops and repeats included
PairVerts == 0 .. (MaxPairVertices - 1)

PairLists(V, maxLen) == UNION { [1 .. n -> V \X V] : n \in 0 .. maxLen }

PlanarityTests(V, PV) ==
    { Test(l, m, << >>) :
        l \in { EdgeList(g) : g \in PlanarityGraphs(V) }
              \cup { Flip(Reverse(EdgeList(g))) :
                        g \in { x \in PlanarityGraphs(V) : Support(x) \subseteq 0 .. 5 } }
              \cup PairLists(PV, MaxPairs),
        m \in { "+", "-" } }

\* --------------------------------------------------------------- state
VARIABLES
    tests,        \* the list read_tests returned
    idx,          \* loop index of main (1-based; 0 before the first test)
    pc,           \* position of main
    exit_status,  \* argument of sys.exit (0 while none was called)
    G,            \* the nx.Graph of the current test
    is_planar,    \* first component of the result of nx.check_planarity
    embedding,    \* second component of that result
    log,          \* per processed test: index, planarity, verify outcome
    b_input,      \* insertion loop: the embedding dict being inserted
    b_G,          \* insertion loop: the PlanarEmbedding built so far
    b_k,          \* insertion loop: position in the dict
    b_i           \* insertion loop: position in the neighbour list

driver_vars == << tests, idx, pc, exit_status, G, is_planar, embedding, log >>
build_vars == << b_input, b_G, b_k, b_i >>
vars == << tests, idx, pc, exit_status, G, is_planar, embedding, log,
           b_input, b_G, b_k, b_i >>

BuildIdle ==
    /\ b_input = << >>
    /\ b_G = EmptyEmbedding
    /\ b_k = 1
    /\ b_i = 1

DriverStart(ts) ==
    /\ tests = ts
    /\ idx = 0
    /\ pc = "loop"
    /\ exit_status = 0
    /\ G = EmptyGraph
    /\ is_planar = FALSE
    /\ embedding = NoEmbedding
    /\ log = << >>
    /\ BuildIdle

\* ------------------------------------------------------------------ main
expected_planar(test) == test.expected = "+"

\* the loop is exhausted: main returns
Finish ==
    /\ pc = "loop"
    /\ idx = Len(tests)
    /\ pc' = "done"
    /\ UNCHANGED << tests, idx, exit_status, G, is_planar, embedding, log, build_vars >>

\* for idx, test in enumerate(tests, 1): G = nx.Graph();
\* G.add_edges_from(...); is_planar, embedding = nx.check_planarity(G)
CheckPlanarity ==
    /\ pc = "loop"
    /\ idx < Len(tests)
    /\ idx' = idx + 1
    /\ G' = add_edges_from(EmptyGraph, tests[idx'].edges)
    /\ \E res \in check_planarity(G') :
          /\ is_planar' = res.is_planar
          /\ embedding' = [ none |-> res.none, entries |-> res.rot ]
    /\ log' = Append(log, [ idx |-> idx', planar |-> is_planar', verified |-> "no" ])
    /\ pc' = "compare"
    /\ UNCHANGED << tests, exit_status, build_vars >>

PlanarityMismatch_Continue ==
    /\ pc = "compare"
    /\ is_planar # expected_planar(tests[idx])
    /\ pc' = "loop"
    /\ UNCHANGED << tests, idx, exit_status, G, is_planar, embedding, log, build_vars >>

\* if is_planar != expected_planar: sys.exit(1)
PlanarityMismatch ==
    /\ pc = "compare"
    /\ is_planar # expected_planar(tests[idx])
    /\ exit_status' = 1
    /\ pc' = "exit"
    /\ UNCHANGED << tests, idx, G, is_planar, embedding, log, build_vars >>

\* if expected_planar and test['embedding'] is not None
PlanarityAgrees ==
    /\ pc = "compare"
    /\ is_planar = expected_planar(tests[idx])
    /\ pc' = IF expected_planar(tests[idx]) /\ ~tests[idx].embedding.none
             THEN "verify" ELSE "loop"
    /\ UNCHANGED << tests, idx, exit_status, G, is_planar, embedding, log, build_vars >>

\* if not verify_embedding(...): sys.exit(2)
VerifyEmbedding ==
    /\ pc = "verify"
    /\ LET r == verify_embedding(tests[idx].edges, tests[idx].embedding.entries)
       IN  /\ log' = [ log EXCEPT ![Len(log)].verified = r ]
           /\ pc' = CASE r = "True" -> "loop"
                      [] r = "False" -> "exit"
                      [] r = "hang" -> "hang"
                      [] OTHER -> "crash"
           /\ exit_status' = IF r = "False" THEN 2 ELSE exit_status
    /\ UNCHANGED << tests, idx, G, is_planar, embedding, build_vars >>

Next ==
    \/ Finish
    \/ CheckPlanarity
    \/ PlanarityMismatch
    \/ PlanarityAgrees
    \/ VerifyEmbedding

InitVerify == \E t \in VerifyTests(EmbVerts, JunkVerts) : DriverStart(<< t >>)

SpecVerify == InitVerify /\ [][Next]_vars

InitPlanar == \E t \in PlanarityTests(TreeVerts, PairVerts) : DriverStart(<< t >>)

SpecPlanar == InitPlanar /\ [][Next]_vars

\* a handful of tests for the batch runs of main
Square == << << 0, 1 >>, << 1, 2 >>, << 2, 3 >>, << 3, 0 >> >>

Triangle == << << 0, 1 >>, << 1, 2 >>, << 0, 2 >> >>

Catalogue ==
    { Test(Square, "+", << << 0, << 1, 3 >> >>, << 1, << 0, 2 >> >>,
                           << 2, << 1, 3 >> >>, << 3, << 2, 0 >> >> >>),
      Test(<< << 0, 1 >> >>, "+", << << 0, << 1 >> >>, << 1, << 0 >> >> >>),
      Test(Triangle, "+", << << 0, << 1 >> >>, << 1, << 0, 2 >> >>, << 2, << 1 >> >> >>),
      Test(Triangle, "-", << >>),
      Test(EdgeList(K33Pairs), "-", << >>),
      Test(EdgeList(K33Pairs), "+", << >>),
      Test(<< << 0, 1 >>, << 0, 2 >> >>, "+", << << 0, << 1, 2, 1 >> >> >>) }

TestLists(maxLen) == UNION { [1 .. n -> Catalogue] : n \in 0 .. maxLen }

Init == \E ts \in TestLists(MaxTests) : DriverStart(ts)

Spec == Init /\ [][Next]_vars

\* ------------------------------------- the insertion loop, call by call
RECURSIVE Norm(_, _, _)
\* the next position of the two nested for loops that holds a neighbour
Norm(input, k, i) ==
    IF k > Len(input) THEN << k, 1 >>
    ELSE IF i > Len(input[k][2]) THEN Norm(input, k + 1, 1)
    ELSE << k, i >>

InitBuild ==
    /\ tests = << >>
    /\ idx = 0
    /\ pc = "insert"
    /\ exit_status = 0
    /\ G = EmptyGraph
    /\ is_planar = FALSE
    /\ embedding = NoEmbedding
    /\ log = << >>
    /\ b_input \in JunkEmbeddings(JunkVerts, MaxNbrs, MaxHalfEdges)
                   \cup RotationEmbeddings(EmbVerts, MaxEdges)
    /\ b_G = EmptyEmbedding
    /\ b_k = Norm(b_input, 1, 1)[1]
    /\ b_i = Norm(b_input, 1, 1)[2]

\* if i == 0: G.add_half_edge(u, v)
InsertFirst ==
    /\ pc = "insert"
    /\ b_k <= Len(b_input)
    /\ b_i = 1
    /\ b_G' = add_half_edge(b_G, b_input[b_k][1], b_input[b_k][2][1])
    /\ b_k' = Norm(b_input, b_k, 2)[1]
    /\ b_i' = Norm(b_input, b_k, 2)[2]
    /\ UNCHANGED << driver_vars, b_input >>

\* else: G.add_half_edge_ccw(u, v, neighbors[i - 1])
InsertCcw ==
    /\ pc = "insert"
    /\ b_k <= Len(b_input)
    /\ b_i > 1
    /\ b_G' = add_half_edge_ccw(b_G, b_input[b_k][1], b_input[b_k][2][b_i],
                                b_input[b_k][2][b_i - 1])
    /\ b_k' = Norm(b_input, b_k, b_i + 1)[1]
    /\ b_i' = Norm(b_input, b_k, b_i + 1)[2]
    /\ UNCHANGED << driver_vars, b_input >>

\* both loops are exhausted
InsertionDone ==
    /\ pc = "insert"
    /\ b_k > Len(b_input)
    /\ pc' = "inserted"
    /\ UNCHANGED << tests, idx, exit_status, G, is_planar, embedding, log, build_vars >>

NextBuild ==
    \/ InsertFirst
    \/ InsertCcw
    \/ InsertionDone

SpecBuild == InitBuild /\ [][NextBuild]_vars

\* ---------------------------------------------------------------- claims
\* the test main is working on, once verify_embedding has been called on it
Verified == pc # "done" /\ idx >= 1 /\ Len(log) = idx /\ log[idx].verified # "no"

CurEdges == tests[idx].edges

CurEntries == tests[idx].embedding.entries

\* the PlanarEmbedding verify_embedding builds from the supplied dict
Built == BuildEmbedding(EmptyEmbedding, CurEntries)

Lists(entries, u) == { entries[i][2] : i \in { j \in 1 .. Len(entries) : entries[j][1] = u } }

Listed(entries, u, v) == \E l \in Lists(entries, u) : Contains(l, v)

\* the unordered pairs of the neighbour lists are those of the edge list
SamePairs(edges, entries) ==
    \A u, v \in Verts :
        (\E i \in 1 .. Len(edges) : edges[i] = << u, v >> \/ edges[i] = << v, u >>)
            <=> (Listed(entries, u, v) \/ Listed(entries, v, u))

\* Euler's relation on a half-edge structure
WithHalfEdges(E) == { v \in Verts : E.keys[v] # << >> }

HalfEdges(E) == UNION { { << u, v >> : v \in Range(E.keys[u]) } : u \in Verts }

UndirectedEdges(E) == { { h[1], h[2] } : h \in HalfEdges(E) }

RECURSIVE FaceOf(_, _, _, _)
\* the half-edges met from h0 by the next-around-face link, until h0
\* recurs (or, should it never recur, until nothing new is met)
FaceOf(E, h0, h, acc) ==
    LET n == << h[2], E.ccw[h[2]][h[1]] >>
    IN  IF n = h0 \/ n \in acc THEN acc ELSE FaceOf(E, h0, n, acc \cup { n })

Faces(E) == { FaceOf(E, h, h, { h }) : h \in HalfEdges(E) }

ComponentsOf(E) == { Reach(E, { v }) : v \in WithHalfEdges(E) }

Euler(E) ==
    Cardinality(WithHalfEdges(E)) - Cardinality(UndirectedEdges(E))
        + Cardinality(Faces(E)) = 2 * Cardinality(ComponentsOf(E))

AllTwins(E) == \A h \in HalfEdges(E) : << h[2], h[1] >> \in HalfEdges(E)

HasLoop(E) == \E v \in Verts : << v, v >> \in HalfEdges(E)

\* C1: verify_embedding returns True exactly when the rotation system it
\* built passes check_structure and the unordered pairs of the neighbour
\* lists are exactly those of the reference edge list; a well-formed
\* rotation system with one edge fewer or one more is answered False.
VerifyIffStructureAndPairs ==
    Verified =>
        ((log[idx].verified = "True")
            <=> (check_structure(Built) = "ok" /\ SamePairs(CurEdges, CurEntries)))

\* a structurally valid embedding that lacks exactly one reference edge
\* has been answered False
OneEdgeShortRejected ==
    /\ Verified
    /\ HalfEdges(Built) # {}
    /\ check_structure(Built) = "ok"
    /\ emb_edges(CurEntries) \subseteq edge_set(CurEdges)
    /\ Cardinality(edge_set(CurEdges)) = Cardinality(emb_edges(CurEntries)) + 1
    /\ log[idx].verified = "False"

\* C5: whatever rotation system is supplied, verify_embedding comes back
\* to main with a boolean: it neither ends in an uncaught error nor fails
\* to return.
VerifyAlwaysReturns == pc \notin { "hang", "crash" }

\* C7: a rotation system that check_structure accepts satisfies
\* V - E + F = 2 C, and one in which every half-edge has its twin but the
\* equality fails is not answered True.
EulerWhenAccepted ==
    Verified =>
        /\ (check_structure(Built) = "ok" => Euler(Built))
        /\ (AllTwins(Built) /\ ~Euler(Built) => log[idx].verified # "True")

\* ---- the planarity questions
\* main has just computed the planarity of test idx
Computed == pc = "compare"

NoLoops(H) == \A v \in Range(H.nodes) : ~Contains(H.adj[v], v)

RotationPairs(H, r) ==
    UNION { { { v, r[v][j] } : j \in 1 .. Len(r[v]) } : v \in Range(H.nodes) }

Loops(H) == { { v } : v \in Range(H.nodes) }

IsComplete(H, n) ==
    /\ Cardinality(Range(H.nodes)) = n
    /\ \A u, v \in Range(H.nodes) : (u # v) <=> ({ u, v } \in GraphEdges(H))

IsK33(H) ==
    /\ Cardinality(Range(H.nodes)) = 6
    /\ \E A \in SUBSET Range(H.nodes) :
          /\ Cardinality(A) = 3
          /\ GraphEdges(H) = { { a, b } : a \in A, b \in Range(H.nodes) \ A }

IsConnected(H) == Cardinality(Components(H)) = 1

IsTree(H) ==
    /\ IsConnected(H)
    /\ Cardinality(GraphEdges(H)) + 1 = Cardinality(Range(H.nodes))

IsCycle(H) ==
    /\ IsConnected(H)
    /\ \A v \in Range(H.nodes) : Cardinality(Nbrs(H, v)) = 2

Malformed(edges) ==
    \/ \E i \in 1 .. Len(edges) : edges[i][1] = edges[i][2]
    \/ \E i, j \in 1 .. Len(edges) :
          i # j /\ frozenset(edges[i]) = frozenset(edges[j])

Induced(H, comp) ==
    [ nodes |-> SelectSeq(H.nodes, LAMBDA v : v \in comp),
      adj |-> [ v \in Verts |-> IF v \in comp THEN H.adj[v] ELSE << >> ] ]

PlanarAlone(H, comp) == NotPlanar \notin check_planarity(Induced(H, comp))

Agreed(i) == log[i].planar = expected_planar(tests[i])

Passed(i) ==
    /\ Agreed(i)
    /\ log[i].verified = (IF expected_planar(tests[i]) THEN "True" ELSE "no")

DriverState ==
    /\ Len(log) = idx
    /\ \A i \in 1 .. Len(log) : log[i].idx = i
    /\ \A i \in 1 .. Len(log) :
          log[i].verified # "no" => Agreed(i) /\ tests[i].expected = "+"
    /\ \A i \in 1 .. idx - 1 : Passed(i)
    /\ pc # "exit" => exit_status = 0
    /\ pc = "exit" =>
          \/ exit_status = 1 /\ ~Agreed(idx) /\ log[idx].verified = "no"
          \/ /\ exit_status = 2
             /\ Agreed(idx)
             /\ tests[idx].expected = "+"
             /\ log[idx].verified = "False"
    /\ pc = "done" => idx = Len(tests) /\ \A i \in 1 .. idx : Passed(i)

\* C10: the tests are processed in file order; the first planarity
\* mismatch ends the run with status 1, the first embedding that fails
\* verify_embedding ends it with status 2, and nothing is processed after
\* either; verify_embedding is only called for a '+' test whose planarity
\* agreed; a run without failure processes every test once and ends
\* normally.
DriverFailFast ==
    /\ []DriverState
    /\ [][pc \notin { "exit", "done" }]_vars

\* a run has stopped with status 2 on its second test, the first passed
SecondTestFailedVerify ==
    /\ pc = "exit"
    /\ exit_status = 2
    /\ idx = 2
    /\ Len(tests) >= 2

\* ---- the insertion calls
Distinct(l) == \A i, j \in 1 .. Len(l) : l[i] = l[j] => i = j

\* the number of neighbours of entry q that have been inserted
Inserted(q) ==
    IF q < b_k THEN Len(b_input[q][2])
    ELSE IF q = b_k THEN b_i - 1
    ELSE 0

\* the rotation at u is the circular counter-clockwise sequence l
IsRotation(E, u, l) ==
    /\ Range(E.keys[u]) = Range(l)
    /\ Len(E.keys[u]) = Len(l)
    /\ \A j \in 1 .. Len(l) :
          /\ E.ccw[u][l[j]] = l[(j % Len(l)) + 1]
          /\ E.cw[u][l[(j % Len(l)) + 1]] = l[j]

SuppliedOrderKept ==
    \A q \in 1 .. Len(b_input) :
        LET l == SubSeq(b_input[q][2], 1, Inserted(q))
        IN  Distinct(l) => b_G.err = "none" /\ IsRotation(b_G, b_input[q][1], l)

OthersUntouched ==
    \A w \in Verts :
        (b_k <= Len(b_input) /\ w # b_input[b_k][1]) =>
            /\ b_G'.keys[w] = b_G.keys[w]
            /\ b_G'.cw[w] = b_G.cw[w]
            /\ b_G'.ccw[w] = b_G.ccw[w]

\* C8: add_half_edge(u, v1) followed by add_half_edge_ccw(u, vi, v(i-1))
\* over pairwise distinct v1..vk leaves the rotation at u equal to the
\* circular counter-clockwise sequence v1, ..., vk, and no call changes
\* the rotation of another vertex.
InsertionKeepsOrder ==
    /\ []SuppliedOrderKept
    /\ [][OthersUntouched]_vars

\* three distinct neighbours, none of them u itself, have been inserted
\* at some vertex, after another vertex got its own
ThreeInserted ==
    /\ pc = "inserted"
    /\ \E q \in 2 .. Len(b_input) :
          /\ Len(b_input[q][2]) = 3
          /\ Distinct(b_input[q][2])
          /\ b_input[q][1] \notin Range(b_input[q][2])
          /\ Len(b_input[q - 1][2]) >= 2

====
